---- MODULE Spec2Model ----
(***************************************************************************)
(* Model of build.rs of sm-rs-types: the build script that merges the      *)
(* sm-json-data schemas into one "total" JSON schema.                      *)
(*                                                                         *)
(* Strings are sequences of one-character strings, so that starts_with,    *)
(* find, slicing, split and join are computed and not assumed.  A JSON     *)
(* value is a record tagged by t: Str, Num, Obj (a function from keys to   *)
(* values) or Arr (a sequence of values).                                  *)
(***************************************************************************)
EXTENDS Integers, Sequences, FiniteSets, TLC

VARIABLES dir, schema_lookup, definitions, schemas, visited, pc, total_schema, arg, ret

vars == <<dir, schema_lookup, definitions, schemas, visited, pc, total_schema, arg, ret>>

---------------------------------------------------------------------------
(* String literals of the source *)

S_m3 == <<"m", "3", "-">>
S_schema_json == <<".", "s", "c", "h", "e", "m", "a", ".", "j", "s", "o", "n">>
S_Schema == <<"S", "c", "h", "e", "m", "a">>
S_hash == "#"
S_dash == "-"
S_hash_properties == <<"#", "/", "p", "r", "o", "p", "e", "r", "t", "i", "e", "s", "/">>
S_hash_definitions == <<"#", "/", "d", "e", "f", "i", "n", "i", "t", "i", "o", "n", "s", "/">>
K_ref == <<"$", "r", "e", "f">>
K_definitions == <<"d", "e", "f", "i", "n", "i", "t", "i", "o", "n", "s">>
K_if == <<"i", "f">>
K_then == <<"t", "h", "e", "n">>
K_schema == <<"$", "s", "c", "h", "e", "m", "a">>
S_draft07 == <<"h", "t", "t", "p", ":", "/", "/", "j", "s", "o", "n", "-", "s", "c", "h", "e", "m", "a", ".", "o", "r", "g", "/", "d", "r", "a", "f", "t", "-", "0", "7", "/", "s", "c", "h", "e", "m", "a", "#">>

---------------------------------------------------------------------------
(* serde_json::Value, Option and panics *)

Str(s) == [t |-> "string", s |-> s]
Num(n) == [t |-> "number", n |-> n]
Obj(m) == [t |-> "object", m |-> m]
Arr(a) == [t |-> "array", a |-> a]

EmptyMap == [k \in {} |-> Num(0)]

None == <<>>
Some(x) == <<x>>

Returned(x) == [t |-> "ok", v |-> x]
Panic == [t |-> "panic"]

(* Map::extend: entries of the second map replace entries of the first *)
MapExtend(into, from) ==
    [k \in DOMAIN into \cup DOMAIN from |-> IF k \in DOMAIN from THEN from[k] ELSE into[k]]

---------------------------------------------------------------------------
(* str primitives used by the source *)

starts_with(s, prefix) ==
    Len(s) >= Len(prefix) /\ SubSeq(s, 1, Len(prefix)) = prefix

ends_with(s, suffix) ==
    Len(s) >= Len(suffix) /\ SubSeq(s, Len(s) - Len(suffix) + 1, Len(s)) = suffix

strip_prefix(s, prefix) ==
    IF starts_with(s, prefix) THEN Some(SubSeq(s, Len(prefix) + 1, Len(s))) ELSE None

strip_suffix(s, suffix) ==
    IF ends_with(s, suffix) THEN Some(SubSeq(s, 1, Len(s) - Len(suffix))) ELSE None

(* str::strip_circumfix: strip_prefix(prefix)?.strip_suffix(suffix) *)
strip_circumfix(s, prefix, suffix) ==
    LET p == strip_prefix(s, prefix)
    IN  IF p = None THEN None ELSE strip_suffix(p[1], suffix)

(* str::find of a one-character pattern: Some(0-based index of the first  *)
(* occurrence) or None                                                     *)
RECURSIVE find_from(_, _, _)
find_from(s, c, i) ==
    IF i > Len(s) THEN None
    ELSE IF s[i] = c THEN Some(i - 1)
    ELSE find_from(s, c, i + 1)

find(s, c) == find_from(s, c, 1)

contains(s, c) == \E i \in 1..Len(s) : s[i] = c

(* str::split on a one-character separator: the sequence of segments,     *)
(* empty segments included                                                 *)
RECURSIVE split(_, _)
split(s, sep) ==
    LET at == find(s, sep)
    IN  IF at = None THEN <<s>>
        ELSE <<SubSeq(s, 1, at[1])>> \o split(SubSeq(s, at[1] + 2, Len(s)), sep)

RECURSIVE join(_)
join(segs) ==
    IF segs = <<>> THEN <<>> ELSE Head(segs) \o join(Tail(segs))

LowerLetters == <<"a", "b", "c", "d", "e", "f", "g", "h", "i", "j", "k", "l", "m", "n", "o", "p", "q", "r", "s", "t", "u", "v", "w", "x", "y", "z">>
UpperLetters == <<"A", "B", "C", "D", "E", "F", "G", "H", "I", "J", "K", "L", "M", "N", "O", "P", "Q", "R", "S", "T", "U", "V", "W", "X", "Y", "Z">>

(* char::to_uppercase: an iterator of characters (one for the letters,    *)
(* two for the sharp s), the character itself when it has no uppercase     *)
to_uppercase(c) ==
    IF \E i \in 1..Len(LowerLetters) : LowerLetters[i] = c
    THEN <<UpperLetters[CHOOSE i \in 1..Len(LowerLetters) : LowerLetters[i] = c]>>
    ELSE IF c = "ß" THEN <<"S", "S">>
    ELSE <<c>>

---------------------------------------------------------------------------
(* NameDeriver *)

uppercase_first(s) ==
    IF s = <<>> THEN <<>> ELSE to_uppercase(Head(s)) \o Tail(s)

(* "Schema" put in front, as the doc comment of the function has it *)
schema_name_to_type_name_prefixed(s) ==
    LET segs == split(s, S_dash)
    IN  join(<<S_Schema>> \o [i \in 1..Len(segs) |-> uppercase_first(segs[i])])

schema_name_to_type_name(s) ==
    LET segs == split(s, S_dash)
    IN  join([i \in 1..Len(segs) |-> uppercase_first(segs[i])] \o <<S_Schema>>)

(* The closure of the last filter_map of schema_lookup: the (filename,     *)
(* name) pair of a file name that matches, None otherwise                  *)
lookup_entry(s) ==
    LET name == strip_circumfix(s, S_m3, S_schema_json)
    IN  IF name = None THEN None ELSE Some(<<s, schema_name_to_type_name(name[1])>>)

---------------------------------------------------------------------------
(* ReferenceRewriter *)

(* &reference[1..] in place of &reference[2..] *)
fix_reference_slice1(reference, name, lookup) ==
    IF starts_with(reference, S_hash_properties)
    THEN Returned(S_hash_definitions \o name \o <<"/">> \o SubSeq(reference, 2, Len(reference)))
    ELSE IF find(reference, S_hash) # None /\ find(reference, S_hash)[1] > 0
    THEN Returned(SubSeq(reference, find(reference, S_hash)[1] + 1, Len(reference)))
    ELSE IF ~contains(reference, S_hash)
    THEN IF reference \in DOMAIN lookup
         THEN Returned(S_hash_definitions \o lookup[reference])
         ELSE Panic
    ELSE Returned(reference)

(* rfind in place of find *)
fix_reference_rfind(reference, name, lookup) ==
    LET last == CHOOSE i \in 0..Len(reference) :
                    /\ i > 0 => reference[i] = S_hash
                    /\ \A j \in (i + 1)..Len(reference) : reference[j] # S_hash
    IN  IF starts_with(reference, S_hash_properties)
        THEN Returned(S_hash_definitions \o name \o <<"/">> \o SubSeq(reference, 3, Len(reference)))
        ELSE IF last > 1
        THEN Returned(SubSeq(reference, last, Len(reference)))
        ELSE IF ~contains(reference, S_hash)
        THEN IF reference \in DOMAIN lookup
             THEN Returned(S_hash_definitions \o lookup[reference])
             ELSE Panic
        ELSE Returned(reference)

(* an unknown file name left as it is instead of the panic *)
fix_reference_lenient(reference, name, lookup) ==
    IF starts_with(reference, S_hash_properties)
    THEN Returned(S_hash_definitions \o name \o <<"/">> \o SubSeq(reference, 3, Len(reference)))
    ELSE IF find(reference, S_hash) # None /\ find(reference, S_hash)[1] > 0
    THEN Returned(SubSeq(reference, find(reference, S_hash)[1] + 1, Len(reference)))
    ELSE IF ~contains(reference, S_hash)
    THEN IF reference \in DOMAIN lookup
         THEN Returned(S_hash_definitions \o lookup[reference])
         ELSE Returned(reference)
    ELSE Returned(reference)

fix_reference(reference, name, lookup) ==
    IF starts_with(reference, S_hash_properties)
    THEN Returned(S_hash_definitions \o name \o <<"/">> \o SubSeq(reference, 3, Len(reference)))
    ELSE IF find(reference, S_hash) # None /\ find(reference, S_hash)[1] > 0
    THEN Returned(SubSeq(reference, find(reference, S_hash)[1] + 1, Len(reference)))
    ELSE IF ~contains(reference, S_hash)
    THEN IF reference \in DOMAIN lookup
         THEN Returned(S_hash_definitions \o lookup[reference])
         ELSE Panic
    ELSE Returned(reference)

(* The body of the for_each closure for the "$ref" key: as_str().unwrap()  *)
(* panics on a value that is not a string                                  *)
fix_ref_value(v, name, lookup) ==
    IF v.t # "string" THEN Panic
    ELSE LET r == fix_reference(v.s, name, lookup)
         IN  IF r.t = "panic" THEN Panic ELSE Str(r.v)

RECURSIVE rewrite_references(_, _, _)
rewrite_references(name, value, lookup) ==
    IF value.t = "object"
    THEN LET new == [k \in DOMAIN value.m |->
                        IF k = K_ref THEN fix_ref_value(value.m[k], name, lookup)
                        ELSE rewrite_references(name, value.m[k], lookup)]
         IN  IF \E k \in DOMAIN new : new[k].t = "panic" THEN Panic ELSE Obj(new)
    ELSE IF value.t = "array"
    THEN LET new == [i \in 1..Len(value.a) |-> rewrite_references(name, value.a[i], lookup)]
         IN  IF \E i \in 1..Len(new) : new[i].t = "panic" THEN Panic ELSE Arr(new)
    ELSE value

---------------------------------------------------------------------------
(* DefinitionExtractor: the accumulator and the schema after the call      *)

(* the accumulator assigned instead of extended *)
extract_definitions_assign(defs_acc, schema) ==
    IF schema.t = "object" /\ K_definitions \in DOMAIN schema.m
    THEN LET removed == schema.m[K_definitions]
             rest == Obj([k \in DOMAIN schema.m \ {K_definitions} |-> schema.m[k]])
         IN  IF removed.t = "object"
             THEN [definitions |-> removed.m, schema |-> rest]
             ELSE [definitions |-> defs_acc, schema |-> rest]
    ELSE [definitions |-> defs_acc, schema |-> schema]

extract_definitions(defs_acc, schema) ==
    IF schema.t = "object" /\ K_definitions \in DOMAIN schema.m
    THEN LET removed == schema.m[K_definitions]
             rest == Obj([k \in DOMAIN schema.m \ {K_definitions} |-> schema.m[k]])
         IN  IF removed.t = "object"
             THEN [definitions |-> MapExtend(defs_acc, removed.m), schema |-> rest]
             ELSE [definitions |-> defs_acc, schema |-> rest]
    ELSE [definitions |-> defs_acc, schema |-> schema]

---------------------------------------------------------------------------
(* ConditionalStripper *)

is_if_then_else(v) ==
    v.t = "object" /\ K_if \in DOMAIN v.m /\ K_then \in DOMAIN v.m

keep_entries(map) == {k \in DOMAIN map : ~is_if_then_else(map[k])}

(* only the first conditional element removed *)
keep_elements_first(vec) ==
    IF \E i \in 1..Len(vec) : is_if_then_else(vec[i])
    THEN LET i == CHOOSE i \in 1..Len(vec) :
                      is_if_then_else(vec[i]) /\ \A j \in 1..(i - 1) : ~is_if_then_else(vec[j])
         IN  SubSeq(vec, 1, i - 1) \o SubSeq(vec, i + 1, Len(vec))
    ELSE vec

keep_elements(vec) == SelectSeq(vec, LAMBDA v : ~is_if_then_else(v))

RECURSIVE strip_if_then_else(_)
strip_if_then_else(value) ==
    IF value.t = "object"
    THEN Obj([k \in keep_entries(value.m) |-> strip_if_then_else(value.m[k])])
    ELSE IF value.t = "array"
    THEN LET kept == keep_elements(value.a)
         IN  Arr([i \in 1..Len(kept) |-> strip_if_then_else(kept[i])])
    ELSE value

---------------------------------------------------------------------------
(* Bounded inputs *)

MaxBaseLen == 4
MaxPieces == 4

SeqsUpTo(S, n) == UNION {[1..k -> S] : k \in 0..n}

BaseChars == {"a", "B", "-", "ß"}
NamePrefixes == {S_m3, <<"m", "3">>, <<>>}
NameSuffixes == {S_schema_json, <<".", "j", "s", "o", "n">>}

FileNameInputs ==
    {p \o b \o s : p \in NamePrefixes, b \in SeqsUpTo(BaseChars, MaxBaseLen), s \in NameSuffixes}

F_a == <<"m", "3", "-", "a", ".", "s", "c", "h", "e", "m", "a", ".", "j", "s", "o", "n">>
F_b == <<"m", "3", "-", "b", ".", "s", "c", "h", "e", "m", "a", ".", "j", "s", "o", "n">>
F_A == <<"m", "3", "-", "A", ".", "s", "c", "h", "e", "m", "a", ".", "j", "s", "o", "n">>
F_notes == <<"n", "o", "t", "e", "s", ".", "j", "s", "o", "n">>
N_ASchema == <<"A", "S", "c", "h", "e", "m", "a">>
N_BSchema == <<"B", "S", "c", "h", "e", "m", "a">>
N_RoomSchema == <<"R", "o", "o", "m", "S", "c", "h", "e", "m", "a">>
S_slash_properties == <<"/", "p", "r", "o", "p", "e", "r", "t", "i", "e", "s", "/">>
S_slash_definitions == <<"/", "d", "e", "f", "i", "n", "i", "t", "i", "o", "n", "s", "/">>

RefPieces == {<<"#">>, S_slash_properties, S_slash_definitions, <<"x">>, F_a}
RefInputs == {join(ps) : ps \in SeqsUpTo(RefPieces, MaxPieces)}
NameInputs == {N_ASchema, N_RoomSchema}
LookupInputs == {EmptyMap, F_a :> N_ASchema}

---------------------------------------------------------------------------
(* The states of the pure functions: arg holds the arguments of one call,  *)
(* ret what the call returned, pc whether it has been made.  The           *)
(* variables of main stay as they are before main starts.                  *)

MainIdle ==
    /\ dir = EmptyMap
    /\ schema_lookup = EmptyMap
    /\ definitions = EmptyMap
    /\ schemas = EmptyMap
    /\ visited = {}
    /\ total_schema = None

MainUnchanged == UNCHANGED <<dir, schema_lookup, definitions, schemas, visited, total_schema>>

(* NameDeriver: one file name through the filter_map of schema_lookup *)
InitName ==
    /\ MainIdle
    /\ arg \in {[s |-> f] : f \in FileNameInputs}
    /\ ret = None
    /\ pc = "call"

NameEntry ==
    /\ pc = "call"
    /\ "s" \in DOMAIN arg
    /\ ret' = lookup_entry(arg.s)
    /\ pc' = "returned"
    /\ UNCHANGED arg
    /\ MainUnchanged

SpecName == InitName /\ [][NameEntry]_vars

(* ReferenceRewriter, one reference string *)
InitFix ==
    /\ MainIdle
    /\ arg \in {[reference |-> r, name |-> n, schema_lookup |-> l] :
                    r \in RefInputs, n \in NameInputs, l \in LookupInputs}
    /\ ret = None
    /\ pc = "call"

FixReference ==
    /\ pc = "call"
    /\ "reference" \in DOMAIN arg
    /\ ret' = fix_reference(arg.reference, arg.name, arg.schema_lookup)
    /\ pc' = "returned"
    /\ UNCHANGED arg
    /\ MainUnchanged

SpecFix == InitFix /\ [][FixReference]_vars

---------------------------------------------------------------------------
(* Properties of NameDeriver *)

BeginsWith(s, p) == Len(s) >= Len(p) /\ \A i \in 1..Len(p) : s[i] = p[i]
FinishesWith(s, p) == Len(s) >= Len(p) /\ \A i \in 1..Len(p) : s[Len(s) - Len(p) + i] = p[i]

MatchesPattern(f) ==
    /\ Len(f) >= Len(S_m3) + Len(S_schema_json)
    /\ BeginsWith(f, S_m3)
    /\ FinishesWith(f, S_schema_json)

BaseOf(f) == SubSeq(f, Len(S_m3) + 1, Len(f) - Len(S_schema_json))

(* The derived name read off the base character by character: a hyphen    *)
(* contributes nothing, the character after a hyphen (or the first one) is *)
(* uppercased, every other character is kept                               *)
RECURSIVE Capitalized(_, _)
Capitalized(b, atStart) ==
    IF b = <<>> THEN <<>>
    ELSE IF Head(b) = "-" THEN Capitalized(Tail(b), TRUE)
    ELSE (IF atStart THEN to_uppercase(Head(b)) ELSE <<Head(b)>>) \o Capitalized(Tail(b), FALSE)

DerivedName(b) == Capitalized(b, TRUE) \o <<"S", "c", "h", "e", "m", "a">>

NameExamples ==
    /\ schema_name_to_type_name(<<"r", "o", "o", "m", "-", "s", "t", "a", "t", "e">>)
         = <<"R", "o", "o", "m", "S", "t", "a", "t", "e", "S", "c", "h", "e", "m", "a">>
    /\ schema_name_to_type_name(<<"f", "o", "o">>) = <<"F", "o", "o", "S", "c", "h", "e", "m", "a">>
    /\ schema_name_to_type_name(<<"f", "o", "o", "-", "-", "b", "a", "r">>)
         = <<"F", "o", "o", "B", "a", "r", "S", "c", "h", "e", "m", "a">>

---------------------------------------------------------------------------
(* Properties of fix_reference *)

HashAt(r) == {i \in 1..Len(r) : r[i] = "#"}

FirstHash(r) == CHOOSE i \in HashAt(r) : \A j \in HashAt(r) : i <= j

(* The fragment of a reference: from its first # to its end *)
FragmentOf(r) == SubSeq(r, FirstHash(r), Len(r))

(* C4: a reference beginning with #/properties/ is rewritten to itself     *)
(* with the leading # replaced by #/definitions/<name>, also when it       *)
(* contains further # characters.                                          *)
C4_LocalProperties ==
    /\ fix_reference(<<"#", "/", "p", "r", "o", "p", "e", "r", "t", "i", "e", "s", "/", "x", "/", "y">>,
                     N_RoomSchema, EmptyMap)
         = Returned(<<"#", "/", "d", "e", "f", "i", "n", "i", "t", "i", "o", "n", "s", "/", "R", "o", "o", "m", "S", "c", "h", "e", "m", "a", "/", "p", "r", "o", "p", "e", "r", "t", "i", "e", "s", "/", "x", "/", "y">>)
    /\ (pc = "returned" /\ "reference" \in DOMAIN arg
          /\ BeginsWith(arg.reference, <<"#">> \o S_slash_properties)) =>
          ret = Returned(<<"#">> \o S_slash_definitions \o arg.name \o Tail(arg.reference))

C4_Witness ==
    /\ pc = "returned"
    /\ "reference" \in DOMAIN arg
    /\ arg.reference = <<"#">> \o S_slash_properties \o <<"x", "#">>
    /\ arg.name = N_RoomSchema
    /\ ret = Returned(<<"#">> \o S_slash_definitions \o N_RoomSchema \o S_slash_properties \o <<"x", "#">>)

(* C5: a reference that does not begin with #/properties/ and has a # past *)
(* index 0 is rewritten to its fragment (from its first # on, the file     *)
(* part before it removed), whatever the NameTable holds; a reference that *)
(* begins with # and not with #/properties/ is left unchanged.             *)
C5_CrossFile ==
    /\ fix_reference(<<"o", "t", "h", "e", "r", ".", "s", "c", "h", "e", "m", "a", ".", "j", "s", "o", "n", "#", "/", "d", "e", "f", "i", "n", "i", "t", "i", "o", "n", "s", "/", "F", "o", "o">>,
                     N_RoomSchema, EmptyMap)
         = Returned(<<"#", "/", "d", "e", "f", "i", "n", "i", "t", "i", "o", "n", "s", "/", "F", "o", "o">>)
    /\ (pc = "returned" /\ "reference" \in DOMAIN arg
          /\ ~BeginsWith(arg.reference, <<"#">> \o S_slash_properties)) =>
          /\ (\E i \in HashAt(arg.reference) : i > 1) => ret = Returned(FragmentOf(arg.reference))
          /\ BeginsWith(arg.reference, <<"#">>) => ret = Returned(arg.reference)

C5_Witness ==
    /\ pc = "returned"
    /\ "reference" \in DOMAIN arg
    /\ arg.reference = F_a \o <<"#">> \o S_slash_definitions \o <<"x">>
    /\ arg.schema_lookup = EmptyMap
    /\ ret = Returned(<<"#">> \o S_slash_definitions \o <<"x">>)

---------------------------------------------------------------------------
(* ConditionalStripper on one tree, applied once and then once more to its *)
(* own result                                                              *)

MaxDepth == 3

K_else == <<"e", "l", "s", "e">>
K_p == <<"p">>

(* Trees of nesting depth at most d: a scalar, an object with one entry,   *)
(* conditionals (if+then, if+then+else) in any position, an object with an *)
(* if but no then, and arrays of one or two elements                       *)
RECURSIVE StripTrees(_)
StripTrees(d) ==
    IF d = 0 THEN {Num(1)}
    ELSE LET sub == StripTrees(d - 1)
         IN  sub
             \cup {Obj(k :> c) : k \in {K_if, K_then, K_p}, c \in sub}
             \cup {Obj((K_if :> c) @@ (K_then :> Num(1))) : c \in sub}
             \cup {Obj((K_if :> Num(1)) @@ (K_then :> c) @@ (K_else :> Num(1))) : c \in sub}
             \cup {Obj((K_p :> c) @@ (K_if :> Num(1))) : c \in sub}
             \cup {Arr(<<c>>) : c \in sub}
             \cup {Arr(<<c, c>>) : c \in sub}
             \cup {Arr(<<Num(1), c>>) : c \in sub}

InitStrip ==
    /\ MainIdle
    /\ arg \in {[value |-> v] : v \in StripTrees(MaxDepth)}
    /\ ret = <<>>
    /\ pc = "call"

Strip ==
    /\ pc = "call"
    /\ DOMAIN arg = {"value"}
    /\ ret' = <<strip_if_then_else(arg.value)>>
    /\ pc' = "returned"
    /\ UNCHANGED arg
    /\ MainUnchanged

StripAgain ==
    /\ pc = "returned"
    /\ DOMAIN arg = {"value"}
    /\ ret' = Append(ret, strip_if_then_else(ret[1]))
    /\ pc' = "again"
    /\ UNCHANGED arg
    /\ MainUnchanged

SpecStrip == InitStrip /\ [][Strip \/ StripAgain]_vars

(* Some node of the tree, the top node included, is an object with both an *)
(* if key and a then key                                                   *)
RECURSIVE HasConditional(_)
HasConditional(v) ==
    \/ v.t = "object" /\ {K_if, K_then} \subseteq DOMAIN v.m
    \/ v.t = "object" /\ \E k \in DOMAIN v.m : HasConditional(v.m[k])
    \/ v.t = "array" /\ \E i \in 1..Len(v.a) : HasConditional(v.a[i])

(* C3: no node of the stripped tree, at any depth and the top node         *)
(* included, is an object with both an if key and a then key.              *)
C3_NoConditionalLeft ==
    (pc \in {"returned", "again"} /\ DOMAIN arg = {"value"}) => ~HasConditional(ret[1])

(* C9: stripping the stripped tree gives the stripped tree again.          *)
C9_Idempotent ==
    (pc = "again" /\ DOMAIN arg = {"value"}) => ret[2] = ret[1]

C9_Witness ==
    /\ pc = "again"
    /\ DOMAIN arg = {"value"}
    /\ arg.value = Obj(K_p :> Arr(<<Obj((K_if :> Num(1)) @@ (K_then :> Num(1))),
                                    Obj((K_if :> Num(1)) @@ (K_then :> Num(1)))>>))
    /\ ret[1] = Obj(K_p :> Arr(<<>>))
    /\ ret[2] = ret[1]

---------------------------------------------------------------------------
(* ReferenceRewriter on one tree *)

MaxRwDepth == 2

S_local_ref == <<"#", "/", "p", "r", "o", "p", "e", "r", "t", "i", "e", "s", "/", "x">>

RwLeaves == {Str(S_local_ref), Str(F_a), Num(1)}

RECURSIVE RwTrees(_)
RwTrees(d) ==
    IF d = 0 THEN RwLeaves
    ELSE LET sub == RwTrees(d - 1)
         IN  sub
             \cup {Obj(k :> c) : k \in {K_ref, K_p}, c \in sub}
             \cup {Obj((K_ref :> l) @@ (K_p :> c)) : l \in RwLeaves, c \in sub}
             \cup {Arr(<<c>>) : c \in sub}
             \cup {Arr(<<c, l>>) : c \in sub, l \in RwLeaves}

InitRewrite ==
    /\ MainIdle
    /\ arg \in {[name |-> n, value |-> v, schema_lookup |-> l] :
                    n \in NameInputs, v \in RwTrees(MaxRwDepth), l \in LookupInputs}
    /\ ret = None
    /\ pc = "call"

Rewrite ==
    /\ pc = "call"
    /\ DOMAIN arg = {"name", "value", "schema_lookup"}
    /\ ret' = Some(rewrite_references(arg.name, arg.value, arg.schema_lookup))
    /\ pc' = "returned"
    /\ UNCHANGED arg
    /\ MainUnchanged

SpecRewrite == InitRewrite /\ [][Rewrite]_vars

(* The strings stored under a $ref key, at any depth *)
RECURSIVE RefStrings(_)
RefStrings(v) ==
    IF v.t = "object"
    THEN UNION {IF k = K_ref
                THEN (IF v.m[k].t = "string" THEN {v.m[k].s} ELSE {})
                ELSE RefStrings(v.m[k]) : k \in DOMAIN v.m}
    ELSE IF v.t = "array"
    THEN UNION {RefStrings(v.a[i]) : i \in 1..Len(v.a)}
    ELSE {}

BareRefsResolve(v, lookup) ==
    \A r \in RefStrings(v) : HashAt(r) = {} => r \in DOMAIN lookup

(* after is before with every string under a $ref key rewritten and        *)
(* nothing else changed                                                    *)
RECURSIVE OnlyRefStringsRewritten(_, _, _, _)
OnlyRefStringsRewritten(before, after, name, lookup) ==
    IF before.t = "object"
    THEN /\ after.t = "object"
         /\ DOMAIN after.m = DOMAIN before.m
         /\ \A k \in DOMAIN before.m :
               IF k = K_ref
               THEN IF before.m[k].t = "string"
                    THEN after.m[k] = Str(fix_reference(before.m[k].s, name, lookup).v)
                    ELSE after.m[k] = before.m[k]
               ELSE OnlyRefStringsRewritten(before.m[k], after.m[k], name, lookup)
    ELSE IF before.t = "array"
    THEN /\ after.t = "array"
         /\ Len(after.a) = Len(before.a)
         /\ \A i \in 1..Len(before.a) :
               OnlyRefStringsRewritten(before.a[i], after.a[i], name, lookup)
    ELSE after = before

(* C6: the rewriter changes only the strings stored directly under a $ref  *)
(* key: same keys, same array lengths and order, every other value (a      *)
(* non-string value under a $ref key included) unchanged, every $ref       *)
(* string at any depth rewritten.  Stated for the trees whose bare         *)
(* references all resolve.                                                 *)
C6_OnlyRefStringsChange ==
    (/\ pc = "returned"
     /\ DOMAIN arg = {"name", "value", "schema_lookup"}
     /\ BareRefsResolve(arg.value, arg.schema_lookup)) =>
        /\ ret[1].t # "panic"
        /\ OnlyRefStringsRewritten(arg.value, ret[1], arg.name, arg.schema_lookup)

---------------------------------------------------------------------------
(* DefinitionExtractor on one tree and one accumulator *)

K_type == <<"t", "y", "p", "e">>
K_X == <<"X">>
K_Y == <<"Y">>
K_Z == <<"Z">>
V_object == Str(<<"o", "b", "j", "e", "c", "t">>)
V_string == Str(<<"s", "t", "r", "i", "n", "g">>)

MapsOver(keys, vals) == UNION {[s -> vals] : s \in SUBSET keys}

DefinitionsValues ==
    {Obj(m) : m \in MapsOver({K_X, K_Y}, {Obj(K_type :> V_string), Obj(K_type :> V_object)})}
        \cup {Num(1), Arr(<<>>)}

ExtractSchemas ==
    {Obj(EmptyMap), Obj(K_type :> V_object), Arr(<<>>), V_string}
        \cup {Obj(K_definitions :> d) : d \in DefinitionsValues}
        \cup {Obj((K_definitions :> d) @@ (K_type :> V_object)) : d \in DefinitionsValues}

ExtractAccumulators == MapsOver({K_X, K_Z}, {Obj(K_type :> V_string), Num(2)})

InitExtract ==
    /\ MainIdle
    /\ arg \in {[definitions |-> a, schema |-> v] : a \in ExtractAccumulators, v \in ExtractSchemas}
    /\ ret = None
    /\ pc = "call"

Extract ==
    /\ pc = "call"
    /\ DOMAIN arg = {"definitions", "schema"}
    /\ ret' = Some(extract_definitions(arg.definitions, arg.schema))
    /\ pc' = "returned"
    /\ UNCHANGED arg
    /\ MainUnchanged

SpecExtract == InitExtract /\ [][Extract]_vars

HasObjectDefinitions(v) ==
    v.t = "object" /\ K_definitions \in DOMAIN v.m /\ v.m[K_definitions].t = "object"

WithoutKey(v, key) == Obj([k \in DOMAIN v.m \ {key} |-> v.m[k]])

(* C7: with a top-level definitions key whose value is an object, the tree *)
(* loses that key and the accumulator gets every entry of that object, the *)
(* other entries of the accumulator staying as they were; without such a   *)
(* key, the tree and the accumulator are unchanged.                        *)
C7_Extract ==
    (pc = "returned" /\ DOMAIN arg = {"definitions", "schema"}) =>
        IF HasObjectDefinitions(arg.schema)
        THEN LET defs == arg.schema.m[K_definitions].m
             IN  /\ ret[1].schema = WithoutKey(arg.schema, K_definitions)
                 /\ DOMAIN ret[1].definitions = DOMAIN arg.definitions \cup DOMAIN defs
                 /\ \A k \in DOMAIN defs : ret[1].definitions[k] = defs[k]
                 /\ \A k \in DOMAIN arg.definitions \ DOMAIN defs :
                       ret[1].definitions[k] = arg.definitions[k]
        ELSE /\ ret[1].schema = arg.schema
             /\ ret[1].definitions = arg.definitions

---------------------------------------------------------------------------
(* MergeDriver: main *)

MaxFiles == 2

K_properties == <<"p", "r", "o", "p", "e", "r", "t", "i", "e", "s">>
K_allOf == <<"a", "l", "l", "O", "f">>
K_items == <<"i", "t", "e", "m", "s">>
S_nope == <<"n", "o", "p", "e">>

(* The content of a file that is not JSON *)
NotJson == [t |-> "invalid"]

(* {"type":"object","definitions":{"X":{"type":"string"}}} *)
Doc_defs == Obj((K_type :> V_object) @@ (K_definitions :> Obj(K_X :> Obj(K_type :> V_string))))

(* {"$ref":"m3-a.schema.json"} *)
Doc_ref_a == Obj(K_ref :> Str(F_a))

(* {"definitions":{"X":{"$ref":"#/properties/p"}},                         *)
(*  "properties":{"p":{"$ref":"m3-b.schema.json#/definitions/X"}}}         *)
Doc_local ==
    Obj((K_definitions :> Obj(K_X :> Obj(K_ref :> Str(S_hash_properties \o <<"p">>))))
        @@ (K_properties :> Obj(K_p :> Obj(K_ref :> Str(F_b \o S_hash_definitions \o <<"X">>)))))

(* {"allOf":[{"if":{},"then":{"$ref":"nope"}}],"items":{"$ref":"m3-b.schema.json"}} *)
Doc_cond ==
    Obj((K_allOf :> Arr(<<Obj((K_if :> Obj(EmptyMap)) @@ (K_then :> Obj(K_ref :> Str(S_nope))))>>))
        @@ (K_items :> Obj(K_ref :> Str(F_b))))

(* {"properties":{"$ref":{"type":"string"}}} *)
Doc_ref_property == Obj(K_properties :> Obj(K_ref :> Obj(K_type :> V_string)))

(* {"definitions":{"ASchema":{"type":"string"}}} *)
Doc_defs_ASchema == Obj(K_definitions :> Obj(N_ASchema :> Obj(K_type :> V_string)))

Docs == {Doc_defs, Doc_ref_a, Doc_local, Doc_cond, Doc_ref_property, Doc_defs_ASchema, NotJson}

FileNames == {F_a, F_b, F_A, F_notes}

Dirs == UNION {[names -> Docs] : names \in {n \in SUBSET FileNames : Cardinality(n) <= MaxFiles}}

(* serde_json::from_str(..).unwrap() *)
read_json(content) == IF content.t = "invalid" THEN Panic ELSE content

(* The first three closures of the chain that builds schemas, for one      *)
(* (filename, name) pair: read, strip, rewrite                             *)
process_schema(name, content, lookup) ==
    LET schema == read_json(content)
    IN  IF schema.t = "panic" THEN Panic
        ELSE rewrite_references(name, strip_if_then_else(schema), lookup)

(* One (filename, name) pair through the whole chain, from the accumulator *)
(* and the entries collected so far to those after it                      *)
schema_step(acc, filename, files, lookup) ==
    IF acc.t = "panic" THEN Panic
    ELSE LET name == lookup[filename]
             schema == process_schema(name, files[filename], lookup)
         IN  IF schema.t = "panic" THEN Panic
             ELSE LET ex == extract_definitions(acc.definitions, schema)
                  IN  [t |-> "ok",
                       definitions |-> ex.definitions,
                       schemas |-> MapExtend(acc.schemas, name :> ex.schema)]

(* schemas.extend(definitions): a hoisted definition replaces a schema *)
merge_total_reversed(defs_acc, collected) ==
    Obj((K_schema :> Str(S_draft07)) @@ (K_definitions :> Obj(MapExtend(collected, defs_acc))))

(* definitions.extend(schemas) and the json! macro *)
merge_total(defs_acc, collected) ==
    Obj((K_schema :> Str(S_draft07)) @@ (K_definitions :> Obj(MapExtend(defs_acc, collected))))

Init ==
    /\ dir \in Dirs
    /\ schema_lookup = EmptyMap
    /\ definitions = EmptyMap
    /\ schemas = EmptyMap
    /\ visited = {}
    /\ total_schema = None
    /\ pc = "start"
    /\ arg = None
    /\ ret = None

BuildLookup ==
    /\ pc = "start"
    /\ schema_lookup' = [f \in {g \in DOMAIN dir : lookup_entry(g) # None} |-> lookup_entry(f)[1][2]]
    /\ pc' = "schemas"
    /\ UNCHANGED <<dir, definitions, schemas, visited, total_schema, arg, ret>>

(* The HashMap hands out its pairs in an arbitrary order *)
ProcessSchema(f) ==
    /\ pc = "schemas"
    /\ f \in DOMAIN schema_lookup \ visited
    /\ LET after == schema_step([t |-> "ok", definitions |-> definitions, schemas |-> schemas],
                                f, dir, schema_lookup)
       IN  IF after.t = "panic"
           THEN /\ pc' = "panicked"
                /\ UNCHANGED <<definitions, schemas, visited>>
           ELSE /\ definitions' = after.definitions
                /\ schemas' = after.schemas
                /\ visited' = visited \cup {f}
                /\ pc' = pc
    /\ UNCHANGED <<dir, schema_lookup, total_schema, arg, ret>>

WriteTotal ==
    /\ pc = "schemas"
    /\ visited = DOMAIN schema_lookup
    /\ definitions' = MapExtend(definitions, schemas)
    /\ total_schema' = Some(merge_total(definitions, schemas))
    /\ pc' = "done"
    /\ UNCHANGED <<dir, schema_lookup, schemas, visited, arg, ret>>

Next ==
    \/ BuildLookup
    \/ \E f \in DOMAIN dir : ProcessSchema(f)
    \/ WriteTotal

Spec == Init /\ [][Next]_vars

---------------------------------------------------------------------------
(* Properties of main *)

Matched == {f \in DOMAIN dir : MatchesPattern(f)}

NameOf(f) == DerivedName(BaseOf(f))

NameTable == [f \in Matched |-> NameOf(f)]

(* What one file leaves after ConditionalStripper, ReferenceRewriter and   *)
(* DefinitionExtractor (into an empty accumulator): its tree and the       *)
(* definitions hoisted from it                                             *)
Filed(f) ==
    extract_definitions(EmptyMap,
        rewrite_references(NameOf(f), strip_if_then_else(dir[f]), NameTable))

FiledTree(f) == Filed(f).schema

Hoisted(f) == Filed(f).definitions

OutputDefinitions == total_schema[1].m[K_definitions].m

OutputShape ==
    /\ total_schema # None
    /\ total_schema[1].t = "object"
    /\ DOMAIN total_schema[1].m = {K_schema, K_definitions}
    /\ total_schema[1].m[K_schema] = Str(S_draft07)
    /\ total_schema[1].m[K_definitions].t = "object"
    /\ DOMAIN OutputDefinitions
         = {NameOf(f) : f \in Matched} \cup UNION {DOMAIN Hoisted(f) : f \in Matched}
    /\ \A k \in DOMAIN OutputDefinitions \ {NameOf(f) : f \in Matched} :
          \E f \in Matched : k \in DOMAIN Hoisted(f) /\ OutputDefinitions[k] = Hoisted(f)[k]

(* C1 as stated: the output of a completed run is {$schema, definitions:   *)
(* D}, the keys of D are the derived names and the hoisted keys, and for   *)
(* every matching file D holds that file's processed tree under that       *)
(* file's derived name.                                                    *)
C1_Original ==
    pc = "done" =>
        /\ OutputShape
        /\ \A f \in Matched : OutputDefinitions[NameOf(f)] = FiledTree(f)

(* C1 as amended: the same, the entry under a derived name being the       *)
(* processed tree of the file when no other matching file has that derived *)
(* name, and of one of the files with that derived name otherwise.         *)
C1_Output ==
    pc = "done" =>
        /\ OutputShape
        /\ \A f \in Matched :
              /\ \E g \in Matched : NameOf(g) = NameOf(f) /\ OutputDefinitions[NameOf(f)] = FiledTree(g)
              /\ (\A g \in Matched : NameOf(g) = NameOf(f) => g = f) =>
                    OutputDefinitions[NameOf(f)] = FiledTree(f)

C1_Witness ==
    /\ pc = "done"
    /\ dir = (F_a :> Doc_defs) @@ (F_b :> Doc_ref_a)
    /\ OutputDefinitions = (K_X :> Obj(K_type :> V_string))
                             @@ (N_ASchema :> Obj(K_type :> V_object))
                             @@ (N_BSchema :> Obj(K_ref :> Str(S_hash_definitions \o N_ASchema)))

(* C2: a $ref string without # that names a file of the NameTable is       *)
(* rewritten to #/definitions/<derived name of that file>; one that does   *)
(* not makes the run abort without output; so the output of a completed    *)
(* run holds no $ref string without #, in the filed schemas or in the      *)
(* hoisted definitions.                                                    *)
C2_NoBareReference ==
    /\ pc = "panicked" => total_schema = None
    /\ pc = "done" =>
          /\ total_schema # None
          /\ \A r \in RefStrings(total_schema[1]) : HashAt(r) # {}
          /\ \A f \in Matched : \A r \in RefStrings(strip_if_then_else(dir[f])) :
                HashAt(r) = {} =>
                    /\ r \in Matched
                    /\ fix_reference(r, NameOf(f), schema_lookup)
                         = Returned(<<"#">> \o S_slash_definitions \o NameOf(r))

C2_Witness ==
    /\ pc = "done"
    /\ dir = (F_b :> Doc_cond)
    /\ OutputDefinitions
         = (N_BSchema :> Obj((K_allOf :> Arr(<<>>))
                             @@ (K_items :> Obj(K_ref :> Str(S_hash_definitions \o N_BSchema)))))

Orders(S) ==
    {o \in [1..Cardinality(S) -> S] : \A i, j \in 1..Cardinality(S) : o[i] = o[j] => i = j}

RECURSIVE RunInOrder(_, _)
RunInOrder(acc, order) ==
    IF order = <<>> THEN acc
    ELSE RunInOrder(schema_step(acc, Head(order), dir, schema_lookup), Tail(order))

(* What main ends with when the files go through the pipeline in the given *)
(* order: the document written, or None when the run aborts                *)
OutcomeOf(order) ==
    LET end == RunInOrder([t |-> "ok", definitions |-> EmptyMap, schemas |-> EmptyMap], order)
    IN  IF end.t = "panic" THEN None ELSE Some(merge_total(end.definitions, end.schemas))

(* No two files hoist the same definition key with different values, and   *)
(* no two files with the same derived name leave different trees           *)
NoClash ==
    \A f, g \in Matched :
        /\ NameOf(f) = NameOf(g) => FiledTree(f) = FiledTree(g)
        /\ \A k \in DOMAIN Hoisted(f) \cap DOMAIN Hoisted(g) : Hoisted(f)[k] = Hoisted(g)[k]

(* C8 as stated: every processing order of the files ends with what this   *)
(* run ended with.                                                         *)
C8_Original ==
    pc \in {"done", "panicked"} =>
        \A o \in Orders(DOMAIN schema_lookup) : OutcomeOf(o) = total_schema

(* C8 as amended: the same, provided no two files hoist the same           *)
(* definition key with different values and no two files with the same     *)
(* derived name leave different trees.                                     *)
C8_OrderIndependent ==
    (pc = "panicked" \/ (pc = "done" /\ NoClash)) =>
        \A o \in Orders(DOMAIN schema_lookup) : OutcomeOf(o) = total_schema

C8_Witness ==
    /\ pc = "done"
    /\ dir = (F_a :> Doc_local) @@ (F_b :> Doc_defs_ASchema)
    /\ NoClash
    /\ DOMAIN OutputDefinitions = {K_X, N_ASchema, N_BSchema}

====
